---------------------------- MODULE Spec2Model ----------------------------
(***************************************************************************)
(* pbs2slurm.py: a line-by-line translator of PBS/Torque job-script        *)
(* directives into SLURM notation.                                         *)
(*                                                                         *)
(* Text is modelled by TLA+ strings (Len, \o and SubSeq act on them        *)
(* character by character).  A Python value that may be None is a tuple    *)
(* of length 0 (None) or 1 (<<value>>), so that None stays distinct from   *)
(* the empty string.                                                       *)
(***************************************************************************)
EXTENDS Integers, Sequences, FiniteSets, TLC

(***************************************************************************)
(* Characters and the character classes of Python's re module              *)
(* (\s, \S, \d, \w), restricted to ASCII.                                  *)
(***************************************************************************)
None == << >>

Some(v) == << v >>

Ch(s, i) == IF 1 <= i /\ i <= Len(s) THEN SubSeq(s, i, i) ELSE ""

\* \s : ASCII whitespace (vertical tab has no TLA+ escape and is left out)
Space == {" ", "\t", "\n", "\r", "\f"}

\* \d
Digit == {"0", "1", "2", "3", "4", "5", "6", "7", "8", "9"}

UpperCase == "ABCDEFGHIJKLMNOPQRSTUVWXYZ"

LowerCase == "abcdefghijklmnopqrstuvwxyz"

Letter == {Ch(UpperCase, i) : i \in 1..26} \cup {Ch(LowerCase, i) : i \in 1..26}

\* \w
Word == Letter \cup Digit \cup {"_"}

RECURSIVE Run(_, _, _)
\* length of the longest run of characters of class cls starting at s[i]
\* (a greedy  [cls]*  )
Run(s, i, cls) ==
    IF i <= Len(s) /\ Ch(s, i) \in cls THEN 1 + Run(s, i + 1, cls) ELSE 0

RECURSIVE RunNot(_, _, _)
\* length of the longest run of characters outside cls starting at s[i]
RunNot(s, i, cls) ==
    IF i <= Len(s) /\ Ch(s, i) \notin cls THEN 1 + RunNot(s, i + 1, cls) ELSE 0

\* the literal lit occurs in s at position i
At(s, i, lit) ==
    /\ i >= 1
    /\ i + Len(lit) - 1 <= Len(s)
    /\ SubSeq(s, i, i + Len(lit) - 1) = lit

\* the first alternative, in order, that matched (re's ordered alternation:
\* nothing follows the alternation in the pattern, so the first alternative
\* that matches at the position is the one the match object reports)
FirstMatch(alts) ==
    IF \E k \in 1..Len(alts) : alts[k] # None
    THEN alts[CHOOSE k \in 1..Len(alts) :
                 alts[k] # None /\ \A j \in 1..(k - 1) : alts[j] = None]
    ELSE None

(***************************************************************************)
(* The match object: every named group of the pattern, None when the       *)
(* group did not take part in the match.                                   *)
(***************************************************************************)
NoGroups ==
    [queue |-> None, name |-> None, account |-> None,
     procs |-> None, tasks_per_node |-> None,
     pvmem |-> None, pvmemunit |-> None, mem |-> None, memunit |-> None,
     walltime |-> None, days |-> None, hours |-> None, mins |-> None,
     secs |-> None, email_events |-> None, email_address |-> None,
     outpath |-> None, errpath |-> None, workdir |-> None]

\* a token group written greedily to the end of the line:  -X\s+(?P<g>.+)
flag_rest_of_line(s, p, flag, g) ==
    IF At(s, p, flag)
    THEN LET w == Run(s, p + Len(flag), Space)
             b == p + Len(flag) + w
             t == RunNot(s, b, {"\n"})
         IN  IF w >= 1 /\ t >= 1
             THEN Some([NoGroups EXCEPT ![g] = Some(SubSeq(s, b, b + t - 1))])
             ELSE None
    ELSE None

\*  -X\s+(?P<g>\S+)  at position p.  \s+ takes the whole run of whitespace
\*  (giving some back would leave \S facing a whitespace character) and \S+
\*  the whole run of non-whitespace.
flag_token(s, p, flag, g) ==
    IF At(s, p, flag)
    THEN LET w == Run(s, p + Len(flag), Space)
             b == p + Len(flag) + w
             t == RunNot(s, b, Space)
         IN  IF w >= 1 /\ t >= 1
             THEN Some([NoGroups EXCEPT ![g] = Some(SubSeq(s, b, b + t - 1))])
             ELSE None
    ELSE None

queue(s, p) == flag_token(s, p, "-q", "queue")

name(s, p) == flag_token(s, p, "-N", "name")

account(s, p) == flag_token(s, p, "-A", "account")

email_address(s, p) == flag_token(s, p, "-M", "email_address")

outpath(s, p) == flag_token(s, p, "-o", "outpath")

errpath(s, p) == flag_token(s, p, "-e", "errpath")

\*  -l\s+  : the position after it, or 0 when it does not match at p
dash_l(s, p) ==
    IF At(s, p, "-l") /\ Run(s, p + 2, Space) >= 1
    THEN p + 2 + Run(s, p + 2, Space)
    ELSE 0

\*  (?:\s*,\s*(tpn|ppn)\s*=\s*(?P<tasks_per_node>\d+))?  at position p:
\*  the captured digits, or None when the optional group does not match
tasks_per_node_opt(s, p) ==
    LET a == p + Run(s, p, Space)
        b == a + 1 + Run(s, a + 1, Space)
        c == b + 3 + Run(s, b + 3, Space)
        d == c + 1 + Run(s, c + 1, Space)
        n == Run(s, d, Digit)
    IN  IF /\ At(s, a, ",")
           /\ (At(s, b, "tpn") \/ At(s, b, "ppn"))
           /\ At(s, c, "=")
           /\ n >= 1
        THEN Some(SubSeq(s, d, d + n - 1))
        ELSE None

\*  -l\s+(procs|nodes)=(?P<procs>\d+)(?: ... )?
\*  \d+ takes the whole run of digits: the optional group starts with
\*  whitespace or a comma, so a shorter run never lets it match.
procs(s, p) ==
    LET b == dash_l(s, p)
        n == Run(s, b + 6, Digit)
    IN  IF b > 0 /\ (At(s, b, "procs=") \/ At(s, b, "nodes=")) /\ n >= 1
        THEN Some([NoGroups EXCEPT
                     !.procs = Some(SubSeq(s, b + 6, b + 5 + n)),
                     !.tasks_per_node = tasks_per_node_opt(s, b + 6 + n)])
        ELSE None

\*  (?P<amount>\d+)(?P<unit>\w+)  at position b.  \d+ is greedy and \w
\*  includes the digits: when a word character follows the digits the
\*  amount is the whole run and the unit the run of word characters after
\*  it; otherwise \d+ gives back its last digit, which becomes the unit.
amount_unit(s, b, amount, unit) ==
    LET n == Run(s, b, Digit)
        u == Run(s, b + n, Word)
    IN  IF n >= 1 /\ u >= 1
        THEN Some([NoGroups EXCEPT
                     ![amount] = Some(SubSeq(s, b, b + n - 1)),
                     ![unit] = Some(SubSeq(s, b + n, b + n + u - 1))])
        ELSE IF n >= 2
        THEN Some([NoGroups EXCEPT
                     ![amount] = Some(SubSeq(s, b, b + n - 2)),
                     ![unit] = Some(SubSeq(s, b + n - 1, b + n - 1))])
        ELSE None

\*  -l\s+pvmem=(?P<pvmem>\d+)(?P<pvmemunit>\w+)
pvmem(s, p) ==
    LET b == dash_l(s, p)
    IN  IF b > 0 /\ At(s, b, "pvmem=")
        THEN amount_unit(s, b + 6, "pvmem", "pvmemunit")
        ELSE None

\*  -l\s+mem=(?P<mem>\d+)(?P<memunit>\w+)
mem(s, p) ==
    LET b == dash_l(s, p)
    IN  IF b > 0 /\ At(s, b, "mem=")
        THEN amount_unit(s, b + 4, "mem", "memunit")
        ELSE None

\*  (\d+):  at position p: [ok, text, next]
colon_field(s, p) ==
    LET n == Run(s, p, Digit)
    IN  IF n >= 1 /\ At(s, p + n, ":")
        THEN [ok |-> TRUE, text |-> SubSeq(s, p, p + n - 1), next |-> p + n + 1]
        ELSE [ok |-> FALSE, text |-> "", next |-> p]

\*  (?P<walltime>-l\s+walltime=)
\*      ((((?P<days>\d+):)?(?P<hours>\d+):)?(?P<mins>\d+):)?(?P<secs>\d+)
\*  The nested optional groups are greedy; the regex engine tries, in this
\*  order, days:hours:mins:secs, hours:mins:secs, mins:secs, secs, and
\*  keeps the first that matches through the seconds.
walltime(s, p) ==
    LET b  == dash_l(s, p)
        q  == b + 9
        f1 == colon_field(s, q)
        f2 == colon_field(s, f1.next)
        f3 == colon_field(s, f2.next)
        digits(i) == SubSeq(s, i, i + Run(s, i, Digit) - 1)
        has(i) == Run(s, i, Digit) >= 1
        g == [NoGroups EXCEPT !.walltime = Some(SubSeq(s, p, q - 1))]
    IN  IF ~(b > 0 /\ At(s, b, "walltime=")) THEN None
        ELSE IF f1.ok /\ f2.ok /\ f3.ok /\ has(f3.next)
        THEN Some([g EXCEPT !.days = Some(f1.text), !.hours = Some(f2.text),
                            !.mins = Some(f3.text),
                            !.secs = Some(digits(f3.next))])
        ELSE IF f1.ok /\ f2.ok /\ has(f2.next)
        THEN Some([g EXCEPT !.hours = Some(f1.text), !.mins = Some(f2.text),
                            !.secs = Some(digits(f2.next))])
        ELSE IF f1.ok /\ has(f1.next)
        THEN Some([g EXCEPT !.mins = Some(f1.text),
                            !.secs = Some(digits(f1.next))])
        ELSE IF has(q)
        THEN Some([g EXCEPT !.secs = Some(digits(q))])
        ELSE None

\*  -m\s+(?P<email_events>[abe]{1,3})
email_events(s, p) ==
    LET w == Run(s, p + 2, Space)
        b == p + 2 + w
        n == Run(s, b, {"a", "b", "e"})
        k == IF n > 3 THEN 3 ELSE n
    IN  IF At(s, p, "-m") /\ w >= 1 /\ n >= 1
        THEN Some([NoGroups EXCEPT !.email_events = Some(SubSeq(s, b, b + k - 1))])
        ELSE None

\* '|'.join([queue, name, account, procs, pvmem, mem, walltime,
\*           email_events, email_address, outpath, errpath])
pbs_alternatives(s, p) ==
    FirstMatch(<< queue(s, p), name(s, p), account(s, p), procs(s, p),
                  pvmem(s, p), mem(s, p), walltime(s, p), email_events(s, p),
                  email_address(s, p), outpath(s, p), errpath(s, p) >>)

\*  #PBS\s+(?:alternatives)  at position p.  Every alternative starts with
\*  "-", so \s+ takes the whole run of whitespace.
pbs_pattern(s, p) ==
    LET w == Run(s, p + 4, Space)
    IN  IF At(s, p, "#PBS") /\ w >= 1
        THEN pbs_alternatives(s, p + 4 + w)
        ELSE None

\*  (?P<workdir>cd\s+\$PBS\_O\_WORKDIR)
workdir_pattern(s, p) ==
    LET w == Run(s, p + 2, Space)
    IN  IF At(s, p, "cd") /\ w >= 1 /\ At(s, p + 2 + w, "$PBS_O_WORKDIR")
        THEN Some([NoGroups EXCEPT
                     !.workdir = Some(SubSeq(s, p, p + 2 + w + 13))])
        ELSE None

\*  (?:pbs_pattern|workdir_pattern)  at position p
pattern(s, p) == FirstMatch(<< pbs_pattern(s, p), workdir_pattern(s, p) >>)

\* matcher.search(line): the pattern tried at every position, leftmost first
matcher_search(line) ==
    IF \E p \in 1..Len(line) : pattern(line, p) # None
    THEN pattern(line, CHOOSE p \in 1..Len(line) :
                          /\ pattern(line, p) # None
                          /\ \A q \in 1..(p - 1) : pattern(line, q) = None)
    ELSE None

\* matcher.match(line): the pattern anchored at the start of the line
matcher_match(line) == pattern(line, 1)

group(matches, g) == matches[1][g]


(***************************************************************************)
(* Python values handed to  '%s' % v : a str, an int, or a float.  A float *)
(* is the exact quotient num/den in lowest terms (the only floats of the   *)
(* program are an int divided by 2**10 or 2**20, which is exact).          *)
(***************************************************************************)
PyStr(s) == [type |-> "str", s |-> s, num |-> 0, den |-> 1]

PyInt(n) == [type |-> "int", s |-> "", num |-> n, den |-> 1]

RECURSIVE Gcd(_, _)
Gcd(a, b) == IF b = 0 THEN a ELSE Gcd(b, a % b)

PyFloat(n, d) ==
    [type |-> "float", s |-> "", num |-> n \div Gcd(n, d), den |-> d \div Gcd(n, d)]

DigitChar(d) == Ch("0123456789", d + 1)

DigitValue(c) == CHOOSE d \in 0..9 : DigitChar(d) = c

RECURSIVE int_digits(_, _)
int_digits(text, acc) ==
    IF text = "" THEN acc
    ELSE int_digits(Tail(text), 10 * acc + DigitValue(Ch(text, 1)))

\* int(x) for x a captured run of digits, or None:
\* [exc |-> "TypeError"] for int(None), else [exc |-> "", val |-> the integer]
int(x) ==
    IF x = None
    THEN [exc |-> "TypeError", val |-> 0]
    ELSE [exc |-> "", val |-> int_digits(x[1], 0)]

RECURSIVE Decimal(_)
\* str(n) for an int n >= 0
Decimal(n) ==
    IF n < 10 THEN DigitChar(n) ELSE Decimal(n \div 10) \o DigitChar(n % 10)

RECURSIVE FractionDigits(_, _)
\* the decimal digits of r/den, 0 <= r < den, den a power of two
FractionDigits(r, den) ==
    IF r = 0 THEN ""
    ELSE DigitChar((10 * r) \div den) \o FractionDigits((10 * r) % den, den)

\* repr(x) of a float x = num/den with 1e-4 <= x < 1e16 whose exact decimal
\* expansion has at most 16 significant digits: the expansion itself, with
\* ".0" for a whole number
FloatRepr(v) ==
    Decimal(v.num \div v.den) \o "." \o
    (IF v.num % v.den = 0 THEN "0" ELSE FractionDigits(v.num % v.den, v.den))

\*  '%s' % v
percent_s(v) ==
    IF v.type = "str" THEN v.s
    ELSE IF v.type = "int" THEN Decimal(v.num)
    ELSE FloatRepr(v)

RECURSIVE lower(_)
\* str.lower()
lower(s) ==
    IF s = "" THEN ""
    ELSE LET c == Ch(s, 1)
         IN  (IF \E i \in 1..26 : Ch(UpperCase, i) = c
              THEN Ch(LowerCase, CHOOSE i \in 1..26 : Ch(UpperCase, i) = c)
              ELSE c) \o lower(Tail(s))

\*  sub in s
contains(s, sub) == \E i \in 1..Len(s) : At(s, i, sub)

(***************************************************************************)
(* The state of a run of  pbs2slurm.py < pbs_file > slurm_file             *)
(***************************************************************************)
VARIABLES
    python,     \* major version of the interpreter "env python" resolves to
    stdin,      \* the lines "for line in sys.stdin" has yet to deliver
    line,       \* the lines delivered so far, the last one being "line"
    stdout,     \* the texts written by sys.stdout.write, one per call
    job_name,   \* the module global job_name
    pc          \* "loop", "done" (input exhausted) or the uncaught exception

vars == << python, stdin, line, stdout, job_name, pc >>

\*  amount / divisor  on ints: floor division under Python 2, true
\*  division (a float) under Python 3
int_div(amount, divisor) ==
    IF python = 2 THEN PyInt(amount \div divisor) ELSE PyFloat(amount, divisor)

\* convert requested memory into megabytes; None for an unknown unit
mem_megabytes(amount, unit) ==
    LET u == lower(unit)
    IN  IF u = "b" THEN Some(int_div(amount, 2 ^ 20))
        ELSE IF u = "kb" THEN Some(int_div(amount, 2 ^ 10))
        ELSE IF u = "mb" THEN Some(PyInt(amount))
        ELSE IF u = "gb" THEN Some(PyInt(amount * (2 ^ 10)))
        ELSE IF u = "tb" THEN Some(PyInt(amount * (2 ^ 20)))
        ELSE None

\* get_walltime_value without the default: the group as it is
get_walltime_value_undefined(match) ==
    IF match = None THEN PyStr("None") ELSE PyStr(match[1])

\* 0 for an undefined (None) group, else the group's text
get_walltime_value(match) ==
    IF match = None THEN PyInt(0) ELSE PyStr(match[1])

(***************************************************************************)
(* process_line.  Its result: the text returned (ret), the value of the    *)
(* global job_name afterwards, and the exception raised ("" for none).     *)
(***************************************************************************)
Return(text, jn) == [ret |-> text, job_name |-> jn, exc |-> ""]

Raise(e, jn) == [ret |-> "", job_name |-> jn, exc |-> e]

\* fallthrough case, we return the line unchanged
fallthrough(l, jn) == Return(l, jn)

\* the note followed by the cd command itself
workdir_note_keeps_cd ==
    "# Note: SLURM defaults to running jobs in the directory\n" \o
    "cd $PBS_O_WORKDIR\n"

workdir_note ==
    "# Note: SLURM defaults to running jobs in the directory\n" \o
    "# where they are submitted, no need for $PBS_O_WORKDIR\n"

\* the_email_address, the_outpath, the_errpath, the_workdir, fallthrough
from_the_email_address(l, matches, jn) ==
    IF group(matches, "email_address") # None
    THEN Return("#SBATCH --mail-user=" \o group(matches, "email_address")[1] \o "\n", jn)
    ELSE IF group(matches, "outpath") # None
    THEN Return("#SBATCH --output=\"" \o group(matches, "outpath")[1] \o "\"\n", jn)
    ELSE IF group(matches, "errpath") # None
    THEN Return("#SBATCH --error=\"" \o group(matches, "errpath")[1] \o "\"\n", jn)
    ELSE IF group(matches, "workdir") # None
    THEN Return(workdir_note, jn)
    ELSE fallthrough(l, jn)

\* the event loop emitting in the fixed order FAIL, BEGIN, END, once each
output_lines_sorted(the_email_events) ==
    (IF contains(the_email_events, "a") THEN "#SBATCH --mail-type=FAIL\n" ELSE "") \o
    (IF contains(the_email_events, "b") THEN "#SBATCH --mail-type=BEGIN\n" ELSE "") \o
    (IF contains(the_email_events, "e") THEN "#SBATCH --mail-type=END\n" ELSE "")

RECURSIVE output_lines(_)
\* for event in the_email_events: output_lines += ...
output_lines(the_email_events) ==
    IF the_email_events = "" THEN ""
    ELSE LET event == Ch(the_email_events, 1)
         IN  (IF event = "a" THEN "#SBATCH --mail-type=FAIL\n"
              ELSE IF event = "b" THEN "#SBATCH --mail-type=BEGIN\n"
              ELSE IF event = "e" THEN "#SBATCH --mail-type=END\n"
              ELSE "") \o output_lines(Tail(the_email_events))

from_the_email_events(l, matches, jn) ==
    IF /\ group(matches, "email_events") # None
       /\ output_lines(group(matches, "email_events")[1]) # ""
    THEN Return(output_lines(group(matches, "email_events")[1]), jn)
    ELSE from_the_email_address(l, matches, jn)

from_the_walltime(l, matches, jn) ==
    IF group(matches, "walltime") # None
    THEN Return("#SBATCH --time="
                \o percent_s(get_walltime_value(group(matches, "days"))) \o "-"
                \o percent_s(get_walltime_value(group(matches, "hours"))) \o ":"
                \o percent_s(get_walltime_value(group(matches, "mins"))) \o ":"
                \o percent_s(get_walltime_value(group(matches, "secs"))) \o "\n", jn)
    ELSE from_the_email_events(l, matches, jn)

\* the_mem: the conversion is applied to the_pvmem and the_pvmemunit
from_the_mem(l, matches, jn) ==
    IF group(matches, "mem") # None /\ group(matches, "memunit") # None
    THEN IF int(group(matches, "pvmem")).exc # ""
         THEN Raise(int(group(matches, "pvmem")).exc, jn)
         ELSE IF group(matches, "pvmemunit") = None
         THEN Raise("AttributeError", jn)
         ELSE LET mem_mb == mem_megabytes(int(group(matches, "pvmem")).val,
                                          group(matches, "pvmemunit")[1])
              IN  IF mem_mb # None
                  THEN Return("#SBATCH --mem=" \o percent_s(mem_mb[1]) \o "\n", jn)
                  ELSE from_the_walltime(l, matches, jn)
    ELSE from_the_walltime(l, matches, jn)

\* the_pvmem with an unknown unit suppressed: nothing is returned for it
from_the_pvmem_suppress(l, matches, jn) ==
    IF group(matches, "pvmem") # None /\ group(matches, "pvmemunit") # None
    THEN LET mem_mb == mem_megabytes(int(group(matches, "pvmem")).val,
                                     group(matches, "pvmemunit")[1])
         IN  IF mem_mb # None
             THEN Return("#SBATCH --mem-per-cpu=" \o percent_s(mem_mb[1]) \o "\n", jn)
             ELSE Return("", jn)
    ELSE from_the_mem(l, matches, jn)

from_the_pvmem(l, matches, jn) ==
    IF group(matches, "pvmem") # None /\ group(matches, "pvmemunit") # None
    THEN LET mem_mb == mem_megabytes(int(group(matches, "pvmem")).val,
                                     group(matches, "pvmemunit")[1])
         IN  IF mem_mb # None
             THEN Return("#SBATCH --mem-per-cpu=" \o percent_s(mem_mb[1]) \o "\n", jn)
             ELSE from_the_mem(l, matches, jn)
    ELSE from_the_mem(l, matches, jn)

from_the_procs(l, matches, jn) ==
    IF group(matches, "procs") # None
    THEN Return("#SBATCH --ntasks=" \o group(matches, "procs")[1] \o "\n" \o
                (IF group(matches, "tasks_per_node") # None
                 THEN "#SBATCH --tasks-per-node="
                      \o group(matches, "tasks_per_node")[1] \o "\n"
                 ELSE ""), jn)
    ELSE from_the_pvmem(l, matches, jn)

\* the_name with the global left alone
from_the_name_no_global(l, matches, jn) ==
    IF group(matches, "name") # None
    THEN Return("#SBATCH --job-name=\"" \o group(matches, "name")[1] \o "\"\n", jn)
    ELSE IF group(matches, "account") # None
    THEN Return("#SBATCH --account=\"" \o group(matches, "account")[1] \o "\"\n", jn)
    ELSE from_the_procs(l, matches, jn)

\* the_name (global job_name = the_name), the_account
from_the_name(l, matches, jn) ==
    IF group(matches, "name") # None
    THEN Return("#SBATCH --job-name=\"" \o group(matches, "name")[1] \o "\"\n",
                group(matches, "name")[1])
    ELSE IF group(matches, "account") # None
    THEN Return("#SBATCH --account=\"" \o group(matches, "account")[1] \o "\"\n", jn)
    ELSE from_the_procs(l, matches, jn)

\* process_line(line), run with the global job_name = jn
process_line(l, jn) ==
    LET matches == matcher_match(l)
    IN  IF matches # None
        THEN IF group(matches, "queue") # None
             THEN IF contains(group(matches, "queue")[1], "smp")
                  THEN Return("#SBATCH -p main\n#SBATCH --exclusive\n", jn)
                  ELSE Return("#SBATCH -p main\n", jn)
             ELSE from_the_name(l, matches, jn)
        ELSE fallthrough(l, jn)

(***************************************************************************)
(* The input.  A run is checked on every one-line script over Lines (the   *)
(* directive forms below with their whitespace, trailing text and line     *)
(* terminators varied) and on every script of 2..MaxLines lines over       *)
(* StreamLines.                                                            *)
(***************************************************************************)
MaxLines == 3

WS == {" ", "\t "}

\* text after the matched directive
Trails == {"", " ", " -l mem=2gb", "\t# c"}

\* "" : a last line without terminator
Terminators == {"\n", "", "\r\n"}

Queues == {"batch", "smp", "bigsmpq", "s-mp"}

Names == {"myjob", "J2"}

Tokens == {"VR0001", "a@b.org", "/tmp/e-1"}

Directive(w1, flag, w2, val) == "#PBS" \o w1 \o flag \o w2 \o val

QueueCores == {Directive(w1, "-q", w2, q) : w1 \in WS, w2 \in WS, q \in Queues}

NameCores == {Directive(" ", "-N", w2, n) : w2 \in WS, n \in Names}

TokenFlags == {"-A", "-M", "-o", "-e"}

TokenCores == {Directive(" ", f, " ", t) : f \in TokenFlags, t \in Tokens}

ProcsKeywords == {"procs", "nodes"}

Counts == {"8", "16"}

\* what follows the count: nothing, a tasks-per-node part, or something
\* the optional group does not match
TpnParts == {"", ",ppn=4", " , tpn = 2", ",ppn=", ":ppn=8"}

ProcsCore(kw, n, tpn) == Directive(" ", "-l", " ", kw \o "=" \o n \o tpn)

ProcsCores == {ProcsCore(kw, n, tpn) : kw \in ProcsKeywords, n \in Counts, tpn \in TpnParts}

MemKinds == {"pvmem", "mem"}

\* <<amount, unit>> with a unit of the table (in any letter case)
GoodMemArgs ==
    { <<"4", "gb">>, <<"1", "gb">>, <<"04", "GB">>, <<"1", "tb">>, <<"2047", "Tb">>,
      <<"512", "mb">>, <<"1", "kb">>, <<"1500", "kb">>, <<"1024", "kb">>,
      <<"1048576", "b">>, <<"1572864", "b">>, <<"524288", "B">> }

\* <<amount, unit>> with a unit outside the table
BadMemArgs ==
    { <<"4", "xyz">>, <<"4", "gw">>, <<"8", "g">>, <<"1", "2">>, <<"2", "gb_">> }

MemCore(kind, a) == Directive(" ", "-l", " ", kind \o "=" \o a[1] \o a[2])

MemCores == {MemCore(k, a) : k \in MemKinds, a \in GoodMemArgs \cup BadMemArgs}

\* the fields of a walltime, None for an absent one: <<days, hours, mins, secs>>
WalltimeArgs ==
    { <<Some("1"), Some("02"), Some("03"), Some("04")>>,
      <<None, Some("100"), Some("00"), Some("00")>>,
      <<None, Some("1"), Some("2"), Some("3")>>,
      <<None, None, Some("05"), Some("06")>>,
      <<None, None, Some("0"), Some("59")>>,
      <<None, None, None, Some("30")>>,
      <<None, None, None, Some("007")>> }

ColonField(f) == IF f = None THEN "" ELSE f[1] \o ":"

\* what follows the seconds at once: nothing, or a colon with no digits
\* after it (the seconds are then first tried as a field followed by ":")
WalltimeSuffixes == {"", ":"}

WalltimeCore(a, sfx) ==
    Directive(" ", "-l", " ", "walltime=" \o ColonField(a[1]) \o ColonField(a[2])
                              \o ColonField(a[3]) \o a[4][1] \o sfx)

WalltimeCores == {WalltimeCore(a, sfx) : a \in WalltimeArgs, sfx \in WalltimeSuffixes}

\* <events> of  -m <events>  that begin with a, b or e
EventTokens == {"abe", "a", "b", "e", "ba", "eee", "eab", "abea", "az", "bn", "eba-"}

\* <events> that begin with another character
OtherEventTokens == {"z", "n", "zab"}

EventsCore(ev) == Directive(" ", "-m", " ", ev)

EventsCores == {EventsCore(ev) : ev \in EventTokens}

WorkdirCores == {"cd $PBS_O_WORKDIR", "cd \t$PBS_O_WORKDIR", "cd $PBS_O_WORKDIR/run1"}

\* the lines that begin with a recognized directive, without terminator
RecognizedCores ==
    QueueCores \cup NameCores \cup TokenCores \cup ProcsCores \cup MemCores
    \cup WalltimeCores \cup EventsCores \cup WorkdirCores

\* lines that begin with no recognized directive, without terminator
UnrecognizedCores ==
    { "echo hello", "#!/bin/bash", "", "   ", "#", "#PBS", "#PBS ",
      " #PBS -q batch", "x#PBS -N myjob", "#PBS-q batch", "#PBS -q", "#PBS -q ",
      "#pbs -q batch", "#PBS -x foo", "#PBS -n myjob", "#PBS -Nmyjob",
      "#PBS -l nodes=", "#PBS -l ppn=4", "#PBS -l pvmem=4", "#PBS -l pvmem=gb",
      "#PBS -l mem=4", "#PBS -l mem= 4gb", "#PBS -l vmem=4gb", "#PBS -lmem=4gb",
      "#PBS -l walltime=", "#PBS -l walltime=:30", "#PBS -l walltime=a:30",
      "#PBS -M", "#PBS -M ", "#SBATCH -p main", "#SBATCH --mem=4096",
      "  cd $PBS_O_WORKDIR", "# cd $PBS_O_WORKDIR", "cd $HOME",
      "cd$PBS_O_WORKDIR", "cd $PBS_O_HOME", "CD $PBS_O_WORKDIR",
      "echo -N other" }
    \cup {EventsCore(ev) : ev \in OtherEventTokens}

Lines ==
    ( {c \o t \o e : c \in RecognizedCores, t \in Trails, e \in Terminators}
      \cup {c \o e : c \in UnrecognizedCores, e \in Terminators} ) \ {""}

StreamLines ==
    { "#PBS -N myjob\n", "#PBS -N J2 -l mem=2gb\n", "#PBS -A VR0001\n",
      "#PBS -l mem=4gb\n", "#PBS -l pvmem=4xyz\n", "echo -N other\n" }

InputStreams ==
    {<<l>> : l \in Lines}
    \cup UNION {[1..k -> StreamLines] : k \in 2..MaxLines}

(***************************************************************************)
(* main: for line in sys.stdin: sys.stdout.write(process_line(line))       *)
(***************************************************************************)
\* Python 3 reads sys.stdin in text mode with universal newlines, so no
\* line it delivers holds a carriage return; Python 2 delivers the bytes.
Init ==
    /\ python \in {2, 3}
    /\ stdin \in InputStreams
    /\ python = 3 => \A i \in 1..Len(stdin) : ~contains(stdin[i], "\r")
    /\ line = << >>
    /\ stdout = << >>
    /\ job_name = "JOB"
    /\ pc = "loop"

\* one iteration of the loop: process_line returns and its text is written
Translate ==
    /\ pc = "loop"
    /\ stdin # << >>
    /\ process_line(Head(stdin), job_name).exc = ""
    /\ stdin' = Tail(stdin)
    /\ line' = Append(line, Head(stdin))
    /\ stdout' = Append(stdout, process_line(Head(stdin), job_name).ret)
    /\ job_name' = process_line(Head(stdin), job_name).job_name
    /\ UNCHANGED << python, pc >>

\* one iteration of the loop: process_line raises, nothing catches the
\* exception and the interpreter exits with a traceback
Abort ==
    /\ pc = "loop"
    /\ stdin # << >>
    /\ process_line(Head(stdin), job_name).exc # ""
    /\ stdin' = Tail(stdin)
    /\ line' = Append(line, Head(stdin))
    /\ job_name' = process_line(Head(stdin), job_name).job_name
    /\ pc' = process_line(Head(stdin), job_name).exc
    /\ UNCHANGED << python, stdout >>

\* sys.stdin is exhausted: the loop and the program end
Exhausted ==
    /\ pc = "loop"
    /\ stdin = << >>
    /\ pc' = "done"
    /\ UNCHANGED << python, stdin, line, stdout, job_name >>

Next == Translate \/ Abort \/ Exhausted

Spec == Init /\ [][Next]_vars

(***************************************************************************)
(* What a run shows of the i-th line delivered: the text written for it,   *)
(* or the exception that ended the run.  Only the last line delivered can  *)
(* have raised.                                                            *)
(***************************************************************************)
Returned(i) == i >= 1 /\ i <= Len(stdout)

Raised(i, e) == i = Len(line) /\ i = Len(stdout) + 1 /\ pc = e

Delivered == 1..Len(line)

Outcome(i) ==
    IF Returned(i) THEN [ret |-> stdout[i], exc |-> ""] ELSE [ret |-> "", exc |-> pc]

(***************************************************************************)
(* The input lines by the directive they were built from.                  *)
(***************************************************************************)
UnrecognizedInputs == {c \o e : c \in UnrecognizedCores, e \in Terminators}

RecognizedInputs ==
    {[core |-> c, text |-> c \o t \o e] :
        c \in RecognizedCores, t \in Trails, e \in Terminators}

GoodMemInputs ==
    {[kind |-> k, arg |-> a, text |-> MemCore(k, a) \o t \o e] :
        k \in MemKinds, a \in GoodMemArgs, t \in Trails, e \in Terminators}

BadMemInputs ==
    {[kind |-> k, text |-> MemCore(k, a) \o t \o e] :
        k \in MemKinds, a \in BadMemArgs, t \in Trails, e \in Terminators}

BadPvmemCores == {MemCore("pvmem", a) : a \in BadMemArgs}

\* the PerVirtualMemory lines whose unit is written in lower case, on which
\* process_line calls mem_megabytes(int(amount), unit)
PvmemInputs ==
    {[arg |-> a, text |-> MemCore("pvmem", a) \o t \o e] :
        a \in {x \in GoodMemArgs \cup BadMemArgs : x[2] = lower(x[2])},
        t \in Trails, e \in Terminators}

EventInputs ==
    {[events |-> ev, text |-> EventsCore(ev) \o t \o e] :
        ev \in EventTokens \cup OtherEventTokens, t \in Trails, e \in Terminators}

\* <events> as the directive's form has them: one to three characters
ShortEventInputs == {m \in EventInputs : Len(m.events) <= 3}

\* <events> that begin with a, b or e, and the others
RecognizedEventInputs == {m \in EventInputs : m.events \in EventTokens}

OtherEventInputs == {m \in EventInputs : m.events \in OtherEventTokens}

WalltimeInputs ==
    {[arg |-> a, text |-> WalltimeCore(a, sfx) \o t \o e] :
        a \in WalltimeArgs, sfx \in WalltimeSuffixes, t \in Trails, e \in Terminators}

NameInputs ==
    {[name |-> n, text |-> Directive(" ", "-N", w, n) \o t \o e] :
        n \in Names, w \in WS, t \in Trails, e \in Terminators}

(***************************************************************************)
(* What the claims expect.                                                 *)
(***************************************************************************)
MemDirective(kind) ==
    IF kind = "mem" THEN "#SBATCH --mem=" ELSE "#SBATCH --mem-per-cpu="

MailType(c) ==
    IF c = "a" THEN "#SBATCH --mail-type=FAIL\n"
    ELSE IF c = "b" THEN "#SBATCH --mail-type=BEGIN\n"
    ELSE IF c = "e" THEN "#SBATCH --mail-type=END\n"
    ELSE ""

RECURSIVE MailTypes(_)
\* one mail-type line per recognized character of ev, in order
MailTypes(ev) == IF ev = "" THEN "" ELSE MailType(Ch(ev, 1)) \o MailTypes(Tail(ev))

\* the longest prefix of ev of at most three characters among a, b, e
Captured(ev) ==
    SubSeq(ev, 1, IF Run(ev, 1, {"a", "b", "e"}) > 3 THEN 3
                  ELSE Run(ev, 1, {"a", "b", "e"}))

FieldOrZero(f) == IF f = None THEN "0" ELSE f[1]

RECURSIVE MostRecentName(_, _)
\* the name of the last JobName line among lines[1..i], "JOB" without one
MostRecentName(lines, i) ==
    IF i = 0 THEN "JOB"
    ELSE IF \E m \in NameInputs : m.text = lines[i]
    THEN (CHOOSE m \in NameInputs : m.text = lines[i]).name
    ELSE MostRecentName(lines, i - 1)

RECURSIVE SplitLines(_)
\* the lines of a text, each with its "\n" (the last one maybe without)
SplitLines(text) ==
    IF text = "" THEN << >>
    ELSE LET n == RunNot(text, 1, {"\n"})
             k == IF n < Len(text) THEN n + 1 ELSE n
         IN  << SubSeq(text, 1, k) >> \o SplitLines(SubSeq(text, k + 1, Len(text)))

RECURSIVE Retranslated(_)
\* the texts process_line returns for a sequence of lines, joined
Retranslated(lines) ==
    IF lines = << >> THEN ""
    ELSE process_line(lines[1], job_name).ret \o Retranslated(Tail(lines))

TableUnits == {"b", "kb", "mb", "gb", "tb"}

WholeMegabytes(amount, unit) ==
    IF unit = "b" THEN amount \div (2 ^ 20)
    ELSE IF unit = "kb" THEN amount \div (2 ^ 10)
    ELSE IF unit = "mb" THEN amount
    ELSE IF unit = "gb" THEN amount * (2 ^ 10)
    ELSE amount * (2 ^ 20)

\* what process_line does with the line l: the text returned, the exception
OutcomeOf(l) ==
    [ret |-> process_line(l, "JOB").ret, exc |-> process_line(l, "JOB").exc]

(***************************************************************************)
(* C1: a line that does not begin, at column 0, with a recognized          *)
(* "#PBS <flag>" directive or with "cd $PBS_O_WORKDIR" is returned as it   *)
(* is, terminator (or none) included.                                      *)
(***************************************************************************)
C1_UnrecognizedLineUnchanged ==
    \A i \in Delivered :
        line[i] \in UnrecognizedInputs => Returned(i) /\ stdout[i] = line[i]

\* C1: a directive with text before it and no terminator has been passed
\* through
C1_Witness ==
    \E i \in Delivered :
        line[i] = " #PBS -q batch" /\ Returned(i) /\ stdout[i] = " #PBS -q batch"

(***************************************************************************)
(* C2: "#PBS -l mem=<int><unit>" with a unit of the table gives exactly    *)
(* the one line "#SBATCH --mem=<megabytes>", and "#PBS -l pvmem=..." the   *)
(* one line "#SBATCH --mem-per-cpu=<megabytes>", <megabytes> being what    *)
(* mem_megabytes makes of the directive's own amount and unit.             *)
(***************************************************************************)
C2_MemoryDirectives ==
    \A i \in Delivered : \A m \in GoodMemInputs :
        line[i] = m.text =>
            /\ Returned(i)
            /\ stdout[i] =
                 MemDirective(m.kind)
                 \o percent_s(mem_megabytes(int_digits(m.arg[1], 0), m.arg[2])[1])
                 \o "\n"

(***************************************************************************)
(* C3 as claimed: a Memory or PerVirtualMemory directive whose unit is     *)
(* not in the table gives the empty text.                                  *)
(***************************************************************************)
C3_UnknownUnitSuppressed ==
    \A i \in Delivered : \A m \in BadMemInputs :
        line[i] = m.text => Returned(i) /\ stdout[i] = ""

(***************************************************************************)
(* C3 as amended: a PerVirtualMemory directive whose unit is not in the    *)
(* table is returned unchanged, the whole line; a Memory directive never   *)
(* gets to its unit, process_line raises TypeError on it.                  *)
(***************************************************************************)
C3_UnknownUnitLineUnchanged ==
    \A i \in Delivered : \A m \in BadMemInputs :
        line[i] = m.text =>
            IF m.kind = "pvmem"
            THEN Returned(i) /\ stdout[i] = line[i]
            ELSE Raised(i, "TypeError")

\* C3: "#PBS -l pvmem=4xyz" has been processed and written back
C3_Witness ==
    \E i \in Delivered :
        /\ line[i] = "#PBS -l pvmem=4xyz\n"
        /\ Returned(i)
        /\ stdout[i] = "#PBS -l pvmem=4xyz\n"

(***************************************************************************)
(* C4 as claimed: "#PBS -m <events>" gives one "#SBATCH --mail-type="      *)
(* line per recognized character of <events>, in order (a FAIL, b BEGIN,   *)
(* e END), other characters giving no line: none at all for "-m z".        *)
(***************************************************************************)
C4_OneLinePerEventCharacter ==
    \A i \in Delivered : \A m \in ShortEventInputs :
        line[i] = m.text => Returned(i) /\ stdout[i] = MailTypes(m.events)

(***************************************************************************)
(* C4 as amended: the lines are those of the captured events, the longest  *)
(* prefix of <events> of at most three characters among a, b, e, in their  *)
(* order; when <events> begins with another character the line is not a    *)
(* recognized directive and is returned unchanged.                         *)
(***************************************************************************)
C4_OneLinePerCapturedEvent ==
    \A i \in Delivered :
        /\ \A m \in RecognizedEventInputs :
              line[i] = m.text =>
                  Returned(i) /\ stdout[i] = MailTypes(Captured(m.events))
        /\ \A m \in OtherEventInputs :
              line[i] = m.text => Returned(i) /\ stdout[i] = line[i]

\* C4: "-m eab" has given END, FAIL, BEGIN in that order
C4_Witness ==
    \E i \in Delivered :
        /\ line[i] = "#PBS -m eab\n"
        /\ Returned(i)
        /\ stdout[i] = "#SBATCH --mail-type=END\n#SBATCH --mail-type=FAIL\n"
                       \o "#SBATCH --mail-type=BEGIN\n"

(***************************************************************************)
(* C5: a walltime directive gives the one line "#SBATCH --time=D-H:M:S",   *)
(* each field the digits as written, "0" for an absent days, hours or      *)
(* minutes field.                                                          *)
(***************************************************************************)
C5_WalltimeDefaultsToZero ==
    \A i \in Delivered : \A m \in WalltimeInputs :
        line[i] = m.text =>
            /\ Returned(i)
            /\ stdout[i] = "#SBATCH --time=" \o FieldOrZero(m.arg[1]) \o "-"
                           \o FieldOrZero(m.arg[2]) \o ":" \o FieldOrZero(m.arg[3])
                           \o ":" \o m.arg[4][1] \o "\n"

\* C5: walltime=05:06 has given 0-0:05:06
C5_Witness ==
    \E i \in Delivered :
        /\ line[i] = "#PBS -l walltime=05:06\n"
        /\ Returned(i)
        /\ stdout[i] = "#SBATCH --time=0-0:05:06\n"

(***************************************************************************)
(* C6: job_name is the name of the most recent "#PBS -N <token>" line      *)
(* delivered, "JOB" when there was none: no other line changes it.         *)
(***************************************************************************)
C6_JobNameIsMostRecent == job_name = MostRecentName(line, Len(line))

\* C6: two JobName lines, then a line of another kind
C6_Witness ==
    /\ line = << "#PBS -N myjob\n", "#PBS -N J2 -l mem=2gb\n", "#PBS -A VR0001\n" >>
    /\ Len(stdout) = 3
    /\ job_name = "J2"

(***************************************************************************)
(* C7: translating the lines of a translation again changes nothing (and   *)
(* raises nothing).                                                        *)
(***************************************************************************)
C7_Idempotent ==
    \A i \in Delivered :
        Returned(i) =>
            /\ \A k \in 1..Len(SplitLines(stdout[i])) :
                   process_line(SplitLines(stdout[i])[k], job_name).exc = ""
            /\ Retranslated(SplitLines(stdout[i])) = stdout[i]

\* C7: the two comment lines for "cd $PBS_O_WORKDIR" have been written
C7_Witness ==
    \E i \in Delivered :
        /\ line[i] = "cd $PBS_O_WORKDIR\n"
        /\ Returned(i)
        /\ Len(SplitLines(stdout[i])) = 2
        /\ stdout[i] # line[i]

(***************************************************************************)
(* C8: mem_megabytes gives whole megabytes by the table  b: amount div     *)
(* 2^20, kb: amount div 2^10, mb: amount, gb: amount * 2^10, tb: amount *  *)
(* 2^20, always an int, and none for another unit; so the directive        *)
(* written for a PerVirtualMemory line carries that whole number.          *)
(***************************************************************************)
C8_WholeMegabytes ==
    \A i \in Delivered : \A m \in PvmemInputs :
        line[i] = m.text =>
            LET amount == int_digits(m.arg[1], 0)
                unit == m.arg[2]
            IN  IF unit \in TableUnits
                THEN /\ mem_megabytes(amount, unit)
                          = Some(PyInt(WholeMegabytes(amount, unit)))
                     /\ Returned(i)
                     /\ stdout[i] = "#SBATCH --mem-per-cpu="
                                    \o Decimal(WholeMegabytes(amount, unit)) \o "\n"
                ELSE mem_megabytes(amount, unit) = None

(***************************************************************************)
(* C9: whatever the lines say, the loop gets to the end of the input with  *)
(* every line translated and written: no line aborts the run.              *)
(***************************************************************************)
C9_RunsToExhaustion ==
    /\ pc \in {"loop", "done"}
    /\ Len(stdout) = Len(line)
    /\ pc = "done" => stdin = << >>

(***************************************************************************)
(* C10 as claimed: what process_line does with a recognized line depends   *)
(* on the directive matched alone, not on what follows it on the line:     *)
(* it is what it does with the directive followed by a bare "\n".          *)
(***************************************************************************)
C10_OutputFromCapturesOnly ==
    \A i \in Delivered : \A m \in RecognizedInputs :
        line[i] = m.text => Outcome(i) = OutcomeOf(m.core \o "\n")

(***************************************************************************)
(* C10 as amended: so it is (the text returned or the exception raised),   *)
(* except for a PerVirtualMemory directive whose unit is not in the table: *)
(* there the whole line is returned, with what follows the directive.      *)
(***************************************************************************)
C10_OutputFromCapturesUnlessUnknownUnit ==
    \A i \in Delivered : \A m \in RecognizedInputs :
        line[i] = m.text =>
            IF m.core \in BadPvmemCores
            THEN Returned(i) /\ stdout[i] = line[i]
            ELSE Outcome(i) = OutcomeOf(m.core \o "\n")

\* C10: an OutputPath directive followed by a second option has been
\* translated
C10_Witness ==
    \E i \in Delivered :
        /\ line[i] = "#PBS -o /tmp/e-1 -l mem=2gb\n"
        /\ Returned(i)
        /\ stdout[i] = "#SBATCH --output=\"/tmp/e-1\"\n"

=============================================================================
